---- MODULE Spec2Model ----
(***************************************************************************)
(* A model of pieces of OvenMediaEngine:                                   *)
(*                                                                         *)
(*   - cfg::Value<bool> (projects/config/value_for_bool.h): the boolean    *)
(*     specialisation of the typed configuration value, with its storage,  *)
(*     its "parsed" flag and its conversions from and to text;             *)
(*   - api::Server::CreateVHost / DeleteVHost                              *)
(*     (projects/api_server/api_server.cpp): the administrative surface    *)
(*     over the orchestrator's virtual host topology, alone and under the  *)
(*     topology lock it shares with lookups;                               *)
(*   - the binder's layering of an included document over a node;          *)
(*   - api::Server::Start / Stop (projects/api_server/api_server.cpp): the *)
(*     HTTP and HTTPS servers the API server creates, holds and releases.  *)
(*                                                                         *)
(* Text is modelled as a sequence of one-character strings, so that        *)
(* rendering and parsing are computed character by character.              *)
(***************************************************************************)
EXTENDS Integers, Sequences, FiniteSets

VARIABLES
    storage,        \* storage[v]: *_value of value v
    is_parsed,      \* is_parsed[v]: _is_parsed of value v
    initial_value,  \* initial_value[v]: what the constructor stored in v
    last,           \* the last Value<bool> operation, its inputs and outputs
    topology,       \* the orchestrator's virtual hosts, in creation order
    api,            \* the last api::Server call, its inputs and outcome
    binder,         \* the DocumentBinder's bind of one field with an include
    lock,           \* the topology lock: its unique holder and its shared holders
    writers,        \* each administrative thread's create/delete call under way
    readers,        \* each request thread's lookup under way
    visible,        \* per name: what the create/delete calls that returned promise of a lookup
    http_server_list,   \* Server::_http_server_list
    https_server_list,  \* Server::_https_server_list
    root_controller,    \* Server::_root_controller is not null
    debug_build,        \* the build defines DEBUG
    starting,           \* the Server::Start call under way, if any
    server_call         \* the last Server::Start / Stop call, its inputs and outcome

value_vars == <<storage, is_parsed, initial_value, last>>
gateway_vars == <<topology, api>>
binder_vars == <<binder>>
thread_vars == <<lock, writers, readers, visible>>
server_vars == <<http_server_list, https_server_list, root_controller, debug_build,
                 starting, server_call>>
vars == <<storage, is_parsed, initial_value, last, topology, api, binder,
          lock, writers, readers, visible,
          http_server_list, https_server_list, root_controller, debug_build,
          starting, server_call>>

\* What the steps of one part leave alone: the variables of the other parts.
other_than_value == <<gateway_vars, binder_vars, thread_vars, server_vars>>
other_than_gateway == <<value_vars, binder_vars, thread_vars, server_vars>>
other_than_binder == <<gateway_vars, thread_vars, server_vars>>
other_than_threads == <<value_vars, api, binder_vars, server_vars>>
other_than_server == <<value_vars, gateway_vars, binder_vars, thread_vars>>

----------------------------------------------------------------------------
(* Bounds *)

\* Value<bool> objects are numbered 1..NumValues.
NumValues == 2
\* The indent argument of ToString ranges over 0..MaxIndent.
MaxIndent == 1
\* Virtual host names are VHostNameList[1..NumVHostNames].
NumVHostNames == 3
NumWriters == 2
NumReaders == 2
NumSharedNames == 1
MaxIps == 2
MaxAddresses == 1
MaxHeldAtStart == 1
MaxFailing == 2

----------------------------------------------------------------------------
(* Values and kinds *)

BoolValues == 1..NumValues
\* One value of another specialisation (Value<int>), used only as the
\* argument of ParseFromValue: the dynamic_cast to Value<bool> fails on it.
OtherKindValues == {0}
AllValues == BoolValues \cup OtherKindValues

Kind(value) == IF value \in BoolValues THEN "Boolean" ELSE "Integer"

\* dynamic_cast<const Value<bool> *>(value) != nullptr
DynamicCast(value) == Kind(value) = "Boolean"

\* std::make_shared<bool>(): a value-initialised bool
DefaultValue == FALSE

\* ValueContainer's _is_parsed after construction
IsParsedInitial == FALSE

----------------------------------------------------------------------------
(* Text *)

TrueText == <<"t", "r", "u", "e">>
FalseText == <<"f", "a", "l", "s", "e">>
NewLine == <<"\n">>

UpperToLower ==
    [T |-> "t", R |-> "r", U |-> "u", E |-> "e", F |-> "f", A |-> "a",
     L |-> "l", S |-> "s", Y |-> "y", N |-> "n", O |-> "o", M |-> "m", B |-> "b"]

ToLowerChar(c) == IF c \in DOMAIN UpperToLower THEN UpperToLower[c] ELSE c

\* ov::String::MakeLower
MakeLower(text) == [i \in 1..Len(text) |-> ToLowerChar(text[i])]

\* The tokens the boolean conversion takes for true, compared without case.
TruthyTokens == {TrueText, <<"1">>, <<"y", "e", "s">>}

\* ov::Converter::ToBool: case-insensitive token matching; text that is no
\* truthy token (a falsy token, or unparseable text) converts to false.
ToBool(str) == MakeLower(str) \in TruthyTokens

\* The attribute values and element texts a document supplies.
DocumentTexts ==
    { TrueText, <<"T", "R", "U", "E">>, <<"T", "r", "u", "e">>,
      <<"1">>, <<"y", "e", "s">>, <<"Y", "e", "s">>,
      FalseText, <<"F", "A", "L", "S", "E">>, <<"0">>, <<"n", "o">>,
      <<>>, <<"m", "a", "y", "b", "e">>, <<" ", "t", "r", "u", "e">>,
      TrueText \o NewLine, FalseText \o NewLine }

----------------------------------------------------------------------------
(* Value<bool> *)

\* The record kept of an operation: its name, the value it ran on, and the
\* arguments and results the operation fills in.
LastRec(op, self) ==
    [op |-> op, self |-> self, other |-> self, text |-> <<>>,
     indent |-> 0, append_new_line |-> FALSE, ret |-> TRUE, out |-> <<>>,
     after_reset |-> FALSE,
     rendered |-> FALSE, src |-> self, src_new_line |-> FALSE]

\* A text handed to ParseFromAttribute / ParseFromNode: its characters, and
\* whether it is the output of the ToString call just before (of which value,
\* with which append_new_line).
DocumentText(text) ==
    [value |-> text, rendered |-> FALSE, src |-> 0, src_new_line |-> FALSE]

RenderedText ==
    [value |-> last.out, rendered |-> TRUE, src |-> last.self,
     src_new_line |-> last.append_new_line]

\* Value(): _value = std::make_shared<Ttype>()
ValueCtor == DefaultValue

\* Value(const Ttype &value): Value(), then _value = std::make_shared<Ttype>(value)
ValueCtorFrom(value) == value

\* void Reset(): _value = std::make_shared<Ttype>(); _is_parsed is not touched.
Reset_KeepsValue(self) ==
    /\ last' = LastRec("Reset", self)
    /\ UNCHANGED <<storage, is_parsed, initial_value>>

Reset(self) ==
    /\ storage' = [storage EXCEPT ![self] = DefaultValue]
    /\ last' = LastRec("Reset", self)
    /\ UNCHANGED <<is_parsed, initial_value>>

\* bool ParseFromValue(const ValueBase *value, int indent)
ParseFromValue_FlagBeforeCast(self, value) ==
    /\ is_parsed' = [is_parsed EXCEPT ![self] = TRUE]
    /\ IF DynamicCast(value)
       THEN /\ storage' = [storage EXCEPT ![self] = storage[value]]
            /\ last' = [LastRec("ParseFromValue", self) EXCEPT !.other = value, !.ret = TRUE]
       ELSE /\ storage' = storage
            /\ last' = [LastRec("ParseFromValue", self) EXCEPT !.other = value, !.ret = FALSE]
    /\ UNCHANGED initial_value

ParseFromValue_CopiesFlag(self, value) ==
    /\ IF DynamicCast(value)
       THEN /\ storage' = [storage EXCEPT ![self] = storage[value]]
            /\ is_parsed' = [is_parsed EXCEPT ![self] = is_parsed[value]]
            /\ last' = [LastRec("ParseFromValue", self) EXCEPT !.other = value, !.ret = TRUE]
       ELSE /\ UNCHANGED <<storage, is_parsed>>
            /\ last' = [LastRec("ParseFromValue", self) EXCEPT !.other = value, !.ret = FALSE]
    /\ UNCHANGED initial_value

ParseFromValue_NoCopy(self, value) ==
    /\ IF DynamicCast(value)
       THEN /\ is_parsed' = [is_parsed EXCEPT ![self] = TRUE]
            /\ last' = [LastRec("ParseFromValue", self) EXCEPT !.other = value, !.ret = TRUE]
            /\ UNCHANGED storage
       ELSE /\ UNCHANGED <<storage, is_parsed>>
            /\ last' = [LastRec("ParseFromValue", self) EXCEPT !.other = value, !.ret = FALSE]
    /\ UNCHANGED initial_value

ParseFromValue(self, value) ==
    /\ IF DynamicCast(value)
       THEN /\ storage' = [storage EXCEPT ![self] = storage[value]]
            /\ is_parsed' = [is_parsed EXCEPT ![self] = TRUE]
            /\ last' = [LastRec("ParseFromValue", self) EXCEPT !.other = value, !.ret = TRUE]
       ELSE /\ UNCHANGED <<storage, is_parsed>>
            /\ last' = [LastRec("ParseFromValue", self) EXCEPT !.other = value, !.ret = FALSE]
    /\ UNCHANGED initial_value

\* bool ParseFromAttribute(const pugi::xml_attribute &attribute, ...)
\* processing_include_file and indent are not read.
ParseFromAttribute_NoFlag(self, attribute) ==
    /\ storage' = [storage EXCEPT ![self] = ToBool(attribute.value)]
    /\ last' = [LastRec("ParseFromAttribute", self) EXCEPT
                    !.text = attribute.value, !.ret = TRUE,
                    !.rendered = attribute.rendered, !.src = attribute.src,
                    !.src_new_line = attribute.src_new_line]
    /\ UNCHANGED <<is_parsed, initial_value>>

ParseFromAttribute(self, attribute) ==
    /\ storage' = [storage EXCEPT ![self] = ToBool(attribute.value)]
    /\ is_parsed' = [is_parsed EXCEPT ![self] = TRUE]
    /\ last' = [LastRec("ParseFromAttribute", self) EXCEPT
                    !.text = attribute.value, !.ret = TRUE,
                    !.rendered = attribute.rendered, !.src = attribute.src,
                    !.src_new_line = attribute.src_new_line]
    /\ UNCHANGED initial_value

\* bool ParseFromNode(const pugi::xml_node &node, ...): node.child_value()
ParseFromNode_NoFlag(self, node) ==
    /\ storage' = [storage EXCEPT ![self] = ToBool(node.value)]
    /\ last' = [LastRec("ParseFromNode", self) EXCEPT
                    !.text = node.value, !.ret = TRUE,
                    !.rendered = node.rendered, !.src = node.src,
                    !.src_new_line = node.src_new_line]
    /\ UNCHANGED <<is_parsed, initial_value>>

ParseFromNode(self, node) ==
    /\ storage' = [storage EXCEPT ![self] = ToBool(node.value)]
    /\ is_parsed' = [is_parsed EXCEPT ![self] = TRUE]
    /\ last' = [LastRec("ParseFromNode", self) EXCEPT
                    !.text = node.value, !.ret = TRUE,
                    !.rendered = node.rendered, !.src = node.src,
                    !.src_new_line = node.src_new_line]
    /\ UNCHANGED initial_value

\* ov::String ToStringInternal(int indent, bool append_new_line) const
ToStringInternal_Inverted(value, indent, append_new_line) ==
    IF append_new_line
    THEN (IF value THEN TrueText \o NewLine ELSE FalseText \o NewLine)
    ELSE (IF value THEN FalseText ELSE TrueText)

ToStringInternal_NewLineIgnoresValue(value, indent, append_new_line) ==
    IF append_new_line
    THEN FalseText \o NewLine
    ELSE (IF value THEN TrueText ELSE FalseText)

ToStringInternal(value, indent, append_new_line) ==
    IF append_new_line
    THEN (IF value THEN TrueText \o NewLine ELSE FalseText \o NewLine)
    ELSE (IF value THEN TrueText ELSE FalseText)

\* ToString(indent, append_new_line): the const call of ToStringInternal
ToString(self, indent, append_new_line) ==
    /\ last' = [LastRec("ToString", self) EXCEPT
                    !.indent = indent, !.append_new_line = append_new_line,
                    !.out = ToStringInternal(storage[self], indent, append_new_line),
                    !.after_reset = (last.op = "Reset" /\ last.self = self)]
    /\ UNCHANGED <<storage, is_parsed, initial_value>>

----------------------------------------------------------------------------
(* The virtual host topology and api::Server *)

VHostNameList == <<"edge1", "edge2", "edge3", "edge4">>
VHostNames == {VHostNameList[i] : i \in 1..NumVHostNames}

\* ocst::Result
Results == {"Failed", "Succeeded", "Exists", "NotExists"}

\* The hosts of a topology that carry a name.
HostsNamed(topo, name) == {i \in 1..Len(topo) : topo[i].name = name}

HasVHost(topo, name) == HostsNamed(topo, name) # {}

\* A topology without the hosts of a name, the others in order.
RemoveVHost(topo, name) == SelectSeq(topo, LAMBDA h : h.name # name)

\* ocst::Orchestrator::CreateVirtualHost, called with a specification that is
\* not read-only: a name already in the topology gives Exists; a construction
\* step that errors gives Failed; both leave the topology as it is. Otherwise
\* the host is inserted and frozen for reads. The flag a deletion checks
\* (is_read_only of the host info) is another flag than frozen, and the
\* freezing leaves it unset.
OrchestratorCreateVirtualHost_FreezeSetsReadOnly(topo, vhost_config, construct_ok) ==
    IF HasVHost(topo, vhost_config.name)
    THEN [result |-> "Exists", topology |-> topo]
    ELSE IF ~construct_ok
    THEN [result |-> "Failed", topology |-> topo]
    ELSE [result |-> "Succeeded",
          topology |-> Append(topo, [name |-> vhost_config.name,
                                     is_read_only |-> TRUE,
                                     frozen |-> TRUE])]

OrchestratorCreateVirtualHost(topo, vhost_config, construct_ok) ==
    IF HasVHost(topo, vhost_config.name)
    THEN [result |-> "Exists", topology |-> topo]
    ELSE IF ~construct_ok
    THEN [result |-> "Failed", topology |-> topo]
    ELSE [result |-> "Succeeded",
          topology |-> Append(topo, [name |-> vhost_config.name,
                                     is_read_only |-> FALSE,
                                     frozen |-> TRUE])]

\* ocst::Orchestrator::DeleteVirtualHost: an absent name gives NotExists; a
\* removal step that errors gives Failed; both leave the topology as it is.
\* Otherwise the host is removed.
OrchestratorDeleteVirtualHost(topo, host_info, remove_ok) ==
    IF ~HasVHost(topo, host_info.name)
    THEN [result |-> "NotExists", topology |-> topo]
    ELSE IF ~remove_ok
    THEN [result |-> "Failed", topology |-> topo]
    ELSE [result |-> "Succeeded", topology |-> RemoveVHost(topo, host_info.name)]

\* OV_ASSERT2(expression): the macro is defined outside these sources. A false
\* expression is a programming error: a build that defines DEBUG stops the
\* process there (fail fast); a build that does not compiles the check out
\* and goes on to the next statement.
AssertStops(expression) == debug_build /\ ~expression

\* The switch of Server::CreateVHost: the http::HttpError it throws for a
\* result, "None" when it returns normally, "Stopped" when OV_ASSERT2(false)
\* stops the process before the throw.
CreateVHostError_ExistsFallsThrough(result) ==
    CASE result = "Failed" -> "BadRequest"
      [] result = "Succeeded" -> "None"
      [] result = "Exists" -> "None"
      [] result = "NotExists" -> "InternalServerError"

CreateVHostError_ExistsAsInternal(result) ==
    CASE result = "Failed" -> "BadRequest"
      [] result = "Succeeded" -> "None"
      [] result = "Exists" -> "InternalServerError"
      [] result = "NotExists" -> "InternalServerError"

CreateVHostError(result) ==
    CASE result = "Failed" -> "BadRequest"
      [] result = "Succeeded" -> "None"
      [] result = "Exists" -> "Conflict"
      [] result = "NotExists" -> IF AssertStops(FALSE) THEN "Stopped" ELSE "InternalServerError"

\* The switch of Server::DeleteVHost.
DeleteVHostError_CasesSwapped(result) ==
    CASE result = "Failed" -> "BadRequest"
      [] result = "Succeeded" -> "None"
      [] result = "Exists" -> "NotFound"
      [] result = "NotExists" -> "InternalServerError"

DeleteVHostError_FailedAsNotFound(result) ==
    CASE result = "Failed" -> "NotFound"
      [] result = "Succeeded" -> "None"
      [] result = "Exists" -> "InternalServerError"
      [] result = "NotExists" -> "NotFound"

DeleteVHostError(result) ==
    CASE result = "Failed" -> "BadRequest"
      [] result = "Succeeded" -> "None"
      [] result = "Exists" -> IF AssertStops(FALSE) THEN "Stopped" ELSE "InternalServerError"
      [] result = "NotExists" -> "NotFound"

\* The record kept of an api::Server call: its argument, the result the
\* orchestrator gave, the error thrown, how many times the orchestrator was
\* called, and whether an assertion stopped the process.
ApiRec(op, host, result, error) ==
    [op |-> op, name |-> host.name, is_read_only |-> host.is_read_only,
     result |-> result, error |-> error, gateway_calls |-> 0,
     aborted |-> FALSE, again |-> FALSE]

\* void Server::CreateVHost(const cfg::vhost::VirtualHost &vhost_config)
CreateVHost_RetriesOnFailed(vhost_config, construct_ok) ==
    /\ ~api.aborted
    /\ IF AssertStops(vhost_config.is_read_only = FALSE)
       THEN /\ api' = [ApiRec("CreateVHost", vhost_config, "none", "none")
                          EXCEPT !.aborted = TRUE]
            /\ UNCHANGED topology
       ELSE LET r == OrchestratorCreateVirtualHost(topology, vhost_config, construct_ok)
                again == OrchestratorCreateVirtualHost(topology, vhost_config, TRUE)
            IN  /\ topology' = IF r.result = "Failed" THEN again.topology ELSE r.topology
                /\ api' = [ApiRec("CreateVHost", vhost_config, r.result,
                                  CreateVHostError(r.result))
                              EXCEPT !.gateway_calls = IF r.result = "Failed" THEN 2 ELSE 1,
                                     !.aborted = (CreateVHostError(r.result) = "Stopped")]

CreateVHost(vhost_config, construct_ok) ==
    /\ ~api.aborted
    /\ IF AssertStops(vhost_config.is_read_only = FALSE)
       THEN /\ api' = [ApiRec("CreateVHost", vhost_config, "none", "none")
                          EXCEPT !.aborted = TRUE]
            /\ UNCHANGED topology
       ELSE LET r == OrchestratorCreateVirtualHost(topology, vhost_config, construct_ok)
            IN  /\ topology' = r.topology
                /\ api' = [ApiRec("CreateVHost", vhost_config, r.result,
                                  CreateVHostError(r.result))
                              EXCEPT !.gateway_calls = 1,
                                     !.aborted = (CreateVHostError(r.result) = "Stopped")]

\* void Server::DeleteVHost(const info::Host &host_info)
DeleteVHost(host_info, remove_ok) ==
    /\ ~api.aborted
    /\ IF AssertStops(host_info.is_read_only = FALSE)
       THEN /\ api' = [ApiRec("DeleteVHost", host_info, "none", "none")
                          EXCEPT !.aborted = TRUE]
            /\ UNCHANGED topology
       ELSE LET r == OrchestratorDeleteVirtualHost(topology, host_info, remove_ok)
            IN  /\ topology' = r.topology
                /\ api' = [ApiRec("DeleteVHost", host_info, r.result,
                                  DeleteVHostError(r.result))
                              EXCEPT !.gateway_calls = 1,
                                     !.aborted = (DeleteVHostError(r.result) = "Stopped"),
                                     !.again = /\ api.op = "DeleteVHost"
                                               /\ api.name = host_info.name
                                               /\ api.result = "Succeeded"]

\* The virtual host configurations and host infos a caller passes.
VHostConfigs == [name : VHostNames, is_read_only : BOOLEAN]

----------------------------------------------------------------------------
(* Specifications *)

NoHost == [name |-> "", is_read_only |-> FALSE]

InitGateway ==
    /\ topology = <<>>
    /\ api = ApiRec("none", NoHost, "none", "none")

\* Each Value<bool> is constructed by Value() or by Value(value); the value
\* of the other kind is in any state.
InitValues ==
    /\ \E init \in [BoolValues -> {ValueCtor} \cup {ValueCtorFrom(b) : b \in BOOLEAN}] :
          /\ initial_value = init
          /\ \E other \in [OtherKindValues -> 0..1] :
                storage = [v \in AllValues |-> IF v \in BoolValues THEN init[v] ELSE other[v]]
    /\ \E p \in [OtherKindValues -> BOOLEAN] :
          is_parsed = [v \in AllValues |-> IF v \in BoolValues THEN IsParsedInitial ELSE p[v]]
    /\ last = LastRec("Construct", 0)

\* The threads that share the topology: administrative threads call
\* CreateVirtualHost / DeleteVirtualHost, request threads look hosts up.
Writers == 1..NumWriters
Readers == 1..NumReaders
SharedNames == {VHostNameList[i] : i \in 1..NumSharedNames}

IdleWriter == [pc |-> "idle", op |-> "none", name |-> "", result |-> "none", latest |-> FALSE]
IdleReader == [pc |-> "idle", name |-> "", expect |-> "none", seen |-> "none"]

\* The lock is free, no call is under way, no host has been created.
InitThreads ==
    /\ lock = [writer |-> 0, readers |-> {}]
    /\ writers = [w \in Writers |-> IdleWriter]
    /\ readers = [r \in Readers |-> IdleReader]
    /\ visible = [n \in SharedNames |-> "absent"]

\* The record kept of a Server::Start or Server::Stop call.
ServerCall(op) ==
    [op |-> op, ret |-> TRUE, reason |-> "none",
     created_http |-> <<>>, created_https |-> <<>>,
     released |-> <<>>, failed |-> {}, again |-> FALSE]

\* No Start call is under way.
NotStarting ==
    [pc |-> "idle", is_port_configured |-> FALSE, is_tls_port_configured |-> FALSE,
     certificate |-> FALSE, ips_left |-> 0, held_http |-> <<>>, held_https |-> <<>>]

\* A Server that was never started.
InitStopped ==
    /\ http_server_list = <<>>
    /\ https_server_list = <<>>
    /\ root_controller = FALSE
    /\ starting = NotStarting
    /\ server_call = ServerCall("none")

\* No bind is under way.
InitBinder ==
    binder = [step |-> 0, order |-> "none", has_local |-> FALSE, local_text |-> <<>>,
              has_included |-> FALSE, included_text |-> <<>>]

InitValue ==
    /\ InitValues
    /\ InitGateway
    /\ InitBinder
    /\ InitThreads
    /\ InitStopped
    /\ debug_build = FALSE

\* The steps of a program that holds the values: one call of one method.
ResetStep ==
    /\ \E self \in BoolValues : Reset(self)
    /\ UNCHANGED other_than_value

ParseFromValueStep ==
    /\ \E self \in BoolValues, value \in AllValues : ParseFromValue(self, value)
    /\ UNCHANGED other_than_value

\* A bind of a text of the document.
ParseFromAttributeStep ==
    /\ \E self \in BoolValues, text \in DocumentTexts :
          ParseFromAttribute(self, DocumentText(text))
    /\ UNCHANGED other_than_value

ParseFromNodeStep ==
    /\ \E self \in BoolValues, text \in DocumentTexts :
          ParseFromNode(self, DocumentText(text))
    /\ UNCHANGED other_than_value

\* A bind, into another value, of the text the ToString call just before
\* returned.
ParseRenderedAttributeStep ==
    /\ last.op = "ToString"
    /\ \E self \in BoolValues \ {last.self} : ParseFromAttribute(self, RenderedText)
    /\ UNCHANGED other_than_value

ParseRenderedNodeStep ==
    /\ last.op = "ToString"
    /\ \E self \in BoolValues \ {last.self} : ParseFromNode(self, RenderedText)
    /\ UNCHANGED other_than_value

ToStringStep ==
    /\ \E self \in BoolValues, indent \in 0..MaxIndent, append_new_line \in BOOLEAN :
          ToString(self, indent, append_new_line)
    /\ UNCHANGED other_than_value

NextValue ==
    \/ ResetStep
    \/ ParseFromValueStep
    \/ ParseFromAttributeStep
    \/ ParseFromNodeStep
    \/ ParseRenderedAttributeStep
    \/ ParseRenderedNodeStep
    \/ ToStringStep

SpecValue == InitValue /\ [][NextValue]_vars

\* The topology under api::Server calls; the values stay as constructed.
\* Default-constructed values, an empty topology, no call made yet.
InitIdle ==
    /\ storage = [v \in AllValues |-> IF v \in BoolValues THEN ValueCtor ELSE 0]
    /\ is_parsed = [v \in AllValues |-> IsParsedInitial]
    /\ initial_value = [v \in BoolValues |-> ValueCtor]
    /\ last = LastRec("Construct", 0)
    /\ InitGateway
    /\ InitBinder
    /\ InitThreads
    /\ InitStopped

\* An empty topology, in a build that defines DEBUG or in one that does not.
InitTopology ==
    /\ InitIdle
    /\ debug_build \in BOOLEAN

CreateVHostStep ==
    /\ \E vhost_config \in VHostConfigs, construct_ok \in BOOLEAN :
          CreateVHost(vhost_config, construct_ok)
    /\ UNCHANGED other_than_gateway

DeleteVHostStep ==
    /\ \E host_info \in VHostConfigs, remove_ok \in BOOLEAN :
          DeleteVHost(host_info, remove_ok)
    /\ UNCHANGED other_than_gateway

NextTopology ==
    \/ CreateVHostStep
    \/ DeleteVHostStep

SpecTopology == InitTopology /\ [][NextTopology]_vars

----------------------------------------------------------------------------
(* The gateway under the topology lock: CreateVirtualHost and
   DeleteVirtualHost of administrative threads interleaved with the lookups of
   request threads. *)

\* The single-writer, multiple-reader discipline of the topology lock.
CanLockUnique_IgnoresWriters(l) == l.readers = {}

CanLockUnique(l) == l.writer = 0 /\ l.readers = {}

CanLockShared_Always(l) == TRUE

CanLockShared(l) == l.writer = 0

\* A writer is inside create/delete from taking the lock to giving it up.
Inside(w) == writers[w].pc \in {"locked", "constructing", "destroying"}

\* What a lookup of name observes in the topology: no host, a whole host
\* (constructed and frozen, not being destroyed), or a host part-way through
\* its construction or destruction.
Observe(topo, wr, name) ==
    IF ~HasVHost(topo, name) THEN "absent"
    ELSE IF /\ \A i \in HostsNamed(topo, name) : topo[i].frozen
            /\ \A w \in Writers : ~(wr[w].pc = "destroying" /\ wr[w].name = name)
         THEN "whole"
         ELSE "partial"

\* An administrative thread's call of CreateVirtualHost or DeleteVirtualHost
\* takes the topology lock for itself alone.
WriterLockStep ==
    /\ \E w \in Writers, op \in {"CreateVirtualHost", "DeleteVirtualHost"}, name \in SharedNames :
          /\ writers[w].pc = "idle"
          /\ CanLockUnique(lock)
          /\ lock' = [lock EXCEPT !.writer = w]
          /\ writers' = [writers EXCEPT ![w] = [pc |-> "locked", op |-> op, name |-> name,
                                                 result |-> "none", latest |-> FALSE]]
    /\ UNCHANGED <<readers, visible, topology>>
    /\ UNCHANGED other_than_threads

\* The call decides its result; a create that goes ahead inserts the host it
\* is still constructing, a delete that goes ahead starts tearing the host
\* down, any other call gives the lock up and returns its result, which
\* promises nothing of a lookup.
WriterEnterStep ==
    /\ \E w \in Writers, step_ok \in BOOLEAN :
          /\ writers[w].pc = "locked"
          /\ LET host == [name |-> writers[w].name, is_read_only |-> FALSE]
                 r == IF writers[w].op = "CreateVirtualHost"
                      THEN OrchestratorCreateVirtualHost(topology, host, step_ok)
                      ELSE OrchestratorDeleteVirtualHost(topology, host, step_ok)
             IN  IF r.result # "Succeeded"
                 THEN /\ writers' = [writers EXCEPT ![w] = IdleWriter]
                      /\ lock' = [lock EXCEPT !.writer = 0]
                      /\ UNCHANGED topology
                 ELSE IF writers[w].op = "CreateVirtualHost"
                      THEN /\ topology' = [i \in 1..Len(r.topology) |->
                                              IF r.topology[i].name = writers[w].name
                                              THEN [r.topology[i] EXCEPT !.frozen = FALSE]
                                              ELSE r.topology[i]]
                           /\ writers' = [writers EXCEPT ![w].pc = "constructing"]
                           /\ UNCHANGED lock
                      ELSE /\ writers' = [writers EXCEPT ![w].pc = "destroying"]
                           /\ UNCHANGED <<topology, lock>>
    /\ UNCHANGED <<readers, visible>>
    /\ UNCHANGED other_than_threads

\* The create publishes the host, frozen; the delete takes the host out; the
\* call gives the lock up. This is the latest change of the name: until the
\* call returns, nothing is promised of a lookup of the name, under way or
\* about to start.
WriterCommitStep ==
    /\ \E w \in Writers :
          /\ writers[w].pc \in {"constructing", "destroying"}
          /\ topology' = IF writers[w].pc = "constructing"
                         THEN [i \in 1..Len(topology) |->
                                  IF topology[i].name = writers[w].name
                                  THEN [topology[i] EXCEPT !.frozen = TRUE]
                                  ELSE topology[i]]
                         ELSE RemoveVHost(topology, writers[w].name)
          /\ writers' = [v \in Writers |->
                            IF v = w
                            THEN [writers[w] EXCEPT !.pc = "return", !.result = "Succeeded",
                                                    !.latest = TRUE]
                            ELSE IF writers[v].name = writers[w].name
                                 THEN [writers[v] EXCEPT !.latest = FALSE]
                                 ELSE writers[v]]
          /\ visible' = [visible EXCEPT ![writers[w].name] = "any"]
          /\ readers' = [r \in Readers |->
                            IF readers[r].pc = "waiting" /\ readers[r].name = writers[w].name
                            THEN [readers[r] EXCEPT !.expect = "any"]
                            ELSE readers[r]]
          /\ lock' = [lock EXCEPT !.writer = 0]
    /\ UNCHANGED other_than_threads

\* The call returns Succeeded to the administrative thread. If its change is
\* still the latest of its name, this promises the host, or its absence, to the
\* lookups that start from now on.
WriterReturnStep ==
    /\ \E w \in Writers :
          /\ writers[w].pc = "return"
          /\ visible' = IF writers[w].latest
                        THEN [visible EXCEPT ![writers[w].name] =
                                 IF writers[w].op = "CreateVirtualHost" THEN "present" ELSE "absent"]
                        ELSE visible
          /\ writers' = [writers EXCEPT ![w] = IdleWriter]
    /\ UNCHANGED <<lock, readers, topology>>
    /\ UNCHANGED other_than_threads

\* A request thread starts a lookup of a name.
ReaderCallStep ==
    /\ \E r \in Readers, name \in SharedNames :
          /\ readers[r].pc = "idle"
          /\ readers' = [readers EXCEPT ![r] =
                            [pc |-> "waiting", name |-> name,
                             expect |-> visible[name],
                             seen |-> "none"]]
    /\ UNCHANGED <<lock, writers, visible, topology>>
    /\ UNCHANGED other_than_threads

\* The lookup takes the topology lock, shared with other lookups, and its
\* snapshot of the topology.
ReaderSnapshotStep ==
    /\ \E r \in Readers :
          /\ readers[r].pc = "waiting"
          /\ CanLockShared(lock)
          /\ lock' = [lock EXCEPT !.readers = @ \cup {r}]
          /\ readers' = [readers EXCEPT ![r].pc = "snapped",
                                        ![r].seen = Observe(topology, writers, readers[r].name)]
    /\ UNCHANGED <<writers, visible, topology>>
    /\ UNCHANGED other_than_threads

\* The lookup gives the lock up and returns.
ReaderReturnStep ==
    /\ \E r \in Readers :
          /\ readers[r].pc = "snapped"
          /\ lock' = [lock EXCEPT !.readers = @ \ {r}]
          /\ readers' = [readers EXCEPT ![r] = IdleReader]
    /\ UNCHANGED <<writers, visible, topology>>
    /\ UNCHANGED other_than_threads

InitConcurrent ==
    /\ InitIdle
    /\ debug_build = FALSE

NextConcurrent ==
    \/ WriterLockStep
    \/ WriterEnterStep
    \/ WriterCommitStep
    \/ WriterReturnStep
    \/ ReaderCallStep
    \/ ReaderSnapshotStep
    \/ ReaderReturnStep

SpecConcurrent == InitConcurrent /\ [][NextConcurrent]_vars

----------------------------------------------------------------------------
(* The DocumentBinder's bind of one boolean field F of a node whose document
   includes another document. *)

\* The field F of the including node, and the field F of the scratch node the
\* included document is bound into.
NodeField == 1
ScratchField == 2

\* The two orders in which the binder may do its work: the included document
\* and its layering before the local document, or after it.
BinderOrders == {"include_first", "local_first"}

BinderPlan(order) ==
    IF order = "include_first"
    THEN <<"included", "layer", "local", "done">>
    ELSE <<"local", "included", "layer", "done">>

BinderAt == BinderPlan(binder.order)[binder.step]

BinderAdvance == binder' = [binder EXCEPT !.step = binder.step + 1]

\* The included document's root is bound into the scratch node.
BindIncludedStep ==
    /\ BinderAt = "included"
    /\ IF binder.has_included
       THEN ParseFromAttribute(ScratchField, DocumentText(binder.included_text))
       ELSE UNCHANGED value_vars
    /\ BinderAdvance
    /\ UNCHANGED other_than_binder

\* Each parsed field of the scratch node is layered onto the including node.
LayerIncludedStep ==
    /\ BinderAt = "layer"
    /\ IF is_parsed[ScratchField]
       THEN ParseFromValue(NodeField, ScratchField)
       ELSE UNCHANGED value_vars
    /\ BinderAdvance
    /\ UNCHANGED other_than_binder

\* The including document's own attribute is bound into the node.
BindLocalStep ==
    /\ BinderAt = "local"
    /\ IF binder.has_local
       THEN ParseFromAttribute(NodeField, DocumentText(binder.local_text))
       ELSE UNCHANGED value_vars
    /\ BinderAdvance
    /\ UNCHANGED other_than_binder

\* Both nodes are fresh from the same schema; the documents set F or not.
InitBind ==
    /\ \E init \in {ValueCtor} \cup {ValueCtorFrom(b) : b \in BOOLEAN} :
          /\ initial_value = [v \in BoolValues |-> init]
          /\ storage = [v \in AllValues |-> IF v \in BoolValues THEN init ELSE 0]
    /\ is_parsed = [v \in AllValues |-> IsParsedInitial]
    /\ last = LastRec("Construct", 0)
    /\ InitGateway
    /\ InitThreads
    /\ InitStopped
    /\ debug_build = FALSE
    /\ \E order \in BinderOrders, has_local \in BOOLEAN, has_included \in BOOLEAN,
          local_text \in DocumentTexts, included_text \in DocumentTexts :
          binder = [step |-> 1, order |-> order,
                    has_local |-> has_local,
                    local_text |-> IF has_local THEN local_text ELSE <<>>,
                    has_included |-> has_included,
                    included_text |-> IF has_included THEN included_text ELSE <<>>]

NextBind ==
    \/ BindIncludedStep
    \/ LayerIncludedStep
    \/ BindLocalStep

SpecBind == InitBind /\ [][NextBind]_vars

----------------------------------------------------------------------------
(* api::Server::Start and api::Server::Stop: the HTTP and HTTPS servers the
   API server gets from the HTTP server manager, holds and releases. *)

\* Servers are told apart by a number; the manager hands out a server that is
\* not held yet.
RangeOf(list) == {list[i] : i \in 1..Len(list)}

NewServer(held) == CHOOSE id \in 1..(Cardinality(held) + 1) :
                       /\ id \notin held
                       /\ \A other \in 1..(Cardinality(held) + 1) : other \notin held => id <= other

RECURSIVE Reverse(_)
Reverse(list) == IF list = <<>> THEN <<>> ELSE Append(Reverse(Tail(list)), Head(list))

\* The loop over one IP's addresses: each address gets a server from the
\* manager, pushed at the back of the list; the loop stops at the first
\* address for which the manager returns no server. creatable is the number of
\* servers the manager still hands out before it returns nullptr.
RECURSIVE CreateServers(_, _, _, _)
CreateServers(list, other_list, address_count, creatable) ==
    IF address_count = 0
    THEN [ok |-> TRUE, list |-> list, creatable |-> creatable]
    ELSE IF creatable = 0
         THEN [ok |-> FALSE, list |-> list, creatable |-> creatable]
         ELSE CreateServers(Append(list, NewServer(RangeOf(list) \cup RangeOf(other_list))),
                            other_list, address_count - 1, creatable - 1)

\* One iteration of PrepareHttpServers' loop over the IP list. The IP resolves
\* to server_ip.addresses addresses, or ov::SocketAddress::Create throws for it
\* when it is called at all; the HTTP servers are created before the HTTPS
\* servers, and the first server the manager does not return ends the call.
PrepareIp(http, https, server_ip, is_port_configured, is_tls_port_configured, certificate, creatable) ==
    LET use_tls == is_tls_port_configured /\ certificate
    IN  IF server_ip.throws /\ (is_port_configured \/ use_tls)
        THEN [ret |-> FALSE, http |-> http, https |-> https]
        ELSE LET h == CreateServers(http, https,
                                    IF is_port_configured THEN server_ip.addresses ELSE 0,
                                    creatable)
             IN  IF ~h.ok
                 THEN [ret |-> FALSE, http |-> h.list, https |-> https]
                 ELSE LET t == CreateServers(https, h.list,
                                             IF use_tls THEN server_ip.addresses ELSE 0,
                                             h.creatable)
                      IN  [ret |-> t.ok, http |-> h.list, https |-> t.list]

\* An empty access token is refused, except by a build that defines DEBUG.
SetupAccessToken(access_token_empty, debug) ==
    IF access_token_empty THEN debug ELSE TRUE

\* Start's clean-up after a failed PrepareHttpServers: the servers it passes to
\* ReleaseServer, in order (each list is emptied from the back).
ReleaseAll_HttpOnly(http, https) == Reverse(http)

ReleaseAll(http, https) == Reverse(http) \o Reverse(https)

\* Stop's loops over the two lists it took over: the servers it passes to
\* ReleaseServer, in order, whatever ReleaseServer returns.
ReleaseEach_UntilFailure(http, https, failing) ==
    LET all == http \o https
        upto == IF \E i \in 1..Len(all) : all[i] \in failing
                THEN CHOOSE i \in 1..Len(all) :
                        all[i] \in failing /\ \A j \in 1..(i - 1) : all[j] \notin failing
                ELSE Len(all)
    IN  SubSeq(all, 1, upto)

ReleaseEach(http, https, failing) == http \o https

\* Stop's result: no ReleaseServer of either list returned false.
StopResult(http, https, failing) ==
    LET http_result == RangeOf(http) \cap failing = {}
        https_result == RangeOf(https) \cap failing = {}
    IN  http_result /\ https_result

\* Start returns before it calls PrepareHttpServers.
ReturnsEarly(config) ==
    \/ ~config.bind_parsed
    \/ ~config.is_port_configured /\ ~config.is_tls_port_configured
    \/ ~SetupAccessToken(config.access_token_empty, debug_build)

\* Server::Start up to the loop of PrepareHttpServers, given the configuration
\* and the length of the IP list: Start returns early, or PrepareHttpServers
\* creates the interceptor (and the root controller) and the certificate.
StartCall(config, ip_count) ==
    /\ starting.pc = "idle"
    /\ UNCHANGED <<http_server_list, https_server_list, debug_build>>
    /\ IF ~config.bind_parsed
       THEN /\ server_call' = [ServerCall("Start") EXCEPT !.reason = "disabled"]
            /\ UNCHANGED <<root_controller, starting>>
       ELSE IF ~config.is_port_configured /\ ~config.is_tls_port_configured
       THEN /\ server_call' = [ServerCall("Start") EXCEPT !.reason = "no_port"]
            /\ UNCHANGED <<root_controller, starting>>
       ELSE IF ~SetupAccessToken(config.access_token_empty, debug_build)
       THEN /\ server_call' = [ServerCall("Start") EXCEPT !.reason = "access_token", !.ret = FALSE]
            /\ UNCHANGED <<root_controller, starting>>
       ELSE /\ root_controller' = TRUE
            /\ starting' = [pc |-> "ips",
                            is_port_configured |-> config.is_port_configured,
                            is_tls_port_configured |-> config.is_tls_port_configured,
                            certificate |-> config.is_tls_port_configured
                                              /\ config.certificate_created,
                            ips_left |-> ip_count,
                            held_http |-> http_server_list,
                            held_https |-> https_server_list]
            /\ server_call' = [ServerCall("Start") EXCEPT !.reason = "running"]

\* The servers of a list that were created by the Start call under way.
CreatedSince(list, held) == SubSeq(list, Len(held) + 1, Len(list))

\* One iteration of the loop of PrepareHttpServers, given what the IP resolves
\* to and the number of servers the manager hands out. When the iteration
\* fails PrepareHttpServers returns false, and Start releases the servers of
\* both lists and returns false.
PrepareHttpServersLoop(server_ip, creatable) ==
    /\ starting.pc = "ips"
    /\ starting.ips_left > 0
    /\ UNCHANGED <<root_controller, debug_build>>
    /\ LET result == PrepareIp(http_server_list, https_server_list, server_ip,
                               starting.is_port_configured, starting.is_tls_port_configured,
                               starting.certificate, creatable)
       IN  IF result.ret
           THEN /\ http_server_list' = result.http
                /\ https_server_list' = result.https
                /\ starting' = [starting EXCEPT !.ips_left = @ - 1]
                /\ UNCHANGED server_call
           ELSE /\ http_server_list' = <<>>
                /\ https_server_list' = <<>>
                /\ starting' = NotStarting
                /\ server_call' = [ServerCall("Start") EXCEPT
                                      !.reason = "prepare",
                                      !.ret = FALSE,
                                      !.created_http = CreatedSince(result.http, starting.held_http),
                                      !.created_https = CreatedSince(result.https, starting.held_https),
                                      !.released = ReleaseAll(result.http, result.https)]

\* The loop of PrepareHttpServers is over: PrepareHttpServers and Start return
\* true.
StartReturn ==
    /\ starting.pc = "ips"
    /\ starting.ips_left = 0
    /\ UNCHANGED <<http_server_list, https_server_list, root_controller, debug_build>>
    /\ starting' = NotStarting
    /\ server_call' = [ServerCall("Start") EXCEPT
                          !.reason = "prepare",
                          !.created_http = CreatedSince(http_server_list, starting.held_http),
                          !.created_https = CreatedSince(https_server_list, starting.held_https)]

\* Server::Stop, given the servers for which ReleaseServer returns false.
Stop(failing) ==
    /\ starting.pc = "idle"
    /\ http_server_list' = <<>>
    /\ https_server_list' = <<>>
    /\ root_controller' = FALSE
    /\ server_call' = [ServerCall("Stop") EXCEPT
                          !.ret = StopResult(http_server_list, https_server_list, failing),
                          !.released = ReleaseEach(http_server_list, https_server_list, failing),
                          !.failed = failing,
                          !.again = (server_call.op = "Stop")]
    /\ UNCHANGED <<debug_build, starting>>

\* The configurations Start reads, and what an IP of the server's list is.
ServerConfigs ==
    [bind_parsed : BOOLEAN, is_port_configured : BOOLEAN, is_tls_port_configured : BOOLEAN,
     access_token_empty : BOOLEAN, certificate_created : BOOLEAN]

\* An IP for which ov::SocketAddress::Create throws, or one that resolves to
\* some addresses.
ServerIps == {[throws |-> TRUE, addresses |-> 0]}
             \cup [throws : {FALSE}, addresses : 0..MaxAddresses]

StartCallStep ==
    /\ Len(http_server_list) + Len(https_server_list) <= MaxHeldAtStart
    /\ \E config \in ServerConfigs, ip_count \in 0..MaxIps : StartCall(config, ip_count)
    /\ UNCHANGED other_than_server

PrepareHttpServersLoopStep ==
    /\ \E server_ip \in ServerIps, creatable \in 0..(MaxAddresses + MaxAddresses) :
          PrepareHttpServersLoop(server_ip, creatable)
    /\ UNCHANGED other_than_server

StartReturnStep ==
    /\ StartReturn
    /\ UNCHANGED other_than_server

\* The sets of at most n of the held servers.
RECURSIVE SetsUpTo(_, _)
SetsUpTo(held, n) ==
    IF n = 0
    THEN {{}}
    ELSE LET smaller == SetsUpTo(held, n - 1)
         IN  smaller \cup {some \cup {id} : some \in smaller, id \in held}

StopStep ==
    /\ \E failing \in SetsUpTo(RangeOf(http_server_list) \cup RangeOf(https_server_list),
                                MaxFailing) :
          Stop(failing)
    /\ UNCHANGED other_than_server

\* A Server that was never started, in a build that defines DEBUG or in one
\* that does not.
InitServer ==
    /\ InitIdle
    /\ debug_build \in BOOLEAN

NextServer ==
    \/ StartCallStep
    \/ PrepareHttpServersLoopStep
    \/ StartReturnStep
    \/ StopStep

SpecServer == InitServer /\ [][NextServer]_vars

----------------------------------------------------------------------------
(* Properties of Value<bool>, checked under SpecValue *)

ParseTextOps == {"ParseFromAttribute", "ParseFromNode"}

\* The document texts that spell a truthy token, and those that spell a
\* falsy one, letter by letter; the other texts are unparseable.
TruthyTexts ==
    { <<"t", "r", "u", "e">>, <<"T", "R", "U", "E">>, <<"T", "r", "u", "e">>,
      <<"1">>, <<"y", "e", "s">>, <<"Y", "e", "s">> }
FalsyTexts ==
    { <<"f", "a", "l", "s", "e">>, <<"F", "A", "L", "S", "E">>, <<"0">>, <<"n", "o">> }

\* C1: Reset(), in any reachable state, sets storage to the kind's default
\* (false) and sets is_parsed to false.
C1_ResetClearsStorageAndParsed ==
    last.op = "Reset" =>
        /\ storage[last.self] = FALSE
        /\ is_parsed[last.self] = FALSE

\* C2 as stated: in every reachable state of every Value<bool>, however it was
\* constructed, is_parsed = false implies that storage is the default.
C2_UnparsedImpliesDefault ==
    \A v \in BoolValues : is_parsed[v] = FALSE => storage[v] = FALSE

\* C2, amended: for a Value<bool> that was constructed by Value(), or by
\* Value(value) with the kind's default, is_parsed = false implies that
\* storage is the default, after any sequence of operations.
C2_UnparsedImpliesDefaultUnlessConstructedFromValue ==
    \A v \in BoolValues :
        (initial_value[v] = FALSE /\ is_parsed[v] = FALSE) => storage[v] = FALSE

\* C2 witness: a default-constructed value is still unparsed, at the default,
\* after a Reset, while another value has been parsed to true.
C2_Witness ==
    /\ last.op = "Reset"
    /\ initial_value[last.self] = FALSE
    /\ is_parsed[last.self] = FALSE
    /\ storage[last.self] = FALSE
    /\ \E w \in BoolValues \ {last.self} : is_parsed[w] /\ storage[w] = TRUE

\* C3: ParseFromValue(other) between two values of the same kind succeeds,
\* copies other's storage into self, sets self's is_parsed and leaves other
\* as it was; between different kinds it returns false and leaves storage and
\* is_parsed of both as they were.
C3_ParseFromValue ==
    [][ (last'.op = "ParseFromValue" /\ last'.other # last'.self) =>
            IF Kind(last'.other) = Kind(last'.self)
            THEN /\ last'.ret = TRUE
                 /\ storage'[last'.self] = storage[last'.other]
                 /\ is_parsed'[last'.self] = TRUE
                 /\ storage'[last'.other] = storage[last'.other]
                 /\ is_parsed'[last'.other] = is_parsed[last'.other]
                 /\ \A v \in AllValues \ {last'.self} :
                        storage'[v] = storage[v] /\ is_parsed'[v] = is_parsed[v]
            ELSE /\ last'.ret = FALSE
                 /\ storage' = storage
                 /\ is_parsed' = is_parsed ]_vars

\* C3 witness: a ParseFromValue from a parsed value holding true has
\* succeeded on a value that was constructed holding false.
C3_Witness ==
    /\ last.op = "ParseFromValue"
    /\ last.other # last.self
    /\ last.ret = TRUE
    /\ is_parsed[last.other]
    /\ storage[last.other] = TRUE
    /\ initial_value[last.self] = FALSE
    /\ storage[last.self] = TRUE
    /\ is_parsed[last.self]

\* C4 as stated: is_parsed is false after construction, and becomes true only
\* by a successful ParseFromAttribute or ParseFromNode, or by a successful
\* ParseFromValue from a value of the same kind that is itself parsed; a
\* ParseFromValue whose source is unparsed does not make the target parsed.
C4_ParsedOnlyFromParsedSource ==
    /\ \A v \in BoolValues : is_parsed[v] = FALSE
    /\ [][ \A v \in BoolValues :
               (is_parsed[v] = FALSE /\ is_parsed'[v] = TRUE) =>
                   /\ last'.self = v
                   /\ last'.ret = TRUE
                   /\ \/ last'.op \in ParseTextOps
                      \/ /\ last'.op = "ParseFromValue"
                         /\ Kind(last'.other) = Kind(v)
                         /\ is_parsed[last'.other] = TRUE ]_vars

\* C4, amended: is_parsed is false after construction, and becomes true only
\* by a successful ParseFromAttribute or ParseFromNode, or by a successful
\* ParseFromValue from a value of the same kind, parsed or not: a
\* ParseFromValue whose same-kind source is unparsed does make the target
\* parsed.
C4_ParsedOnlyBySuccessfulBind ==
    /\ \A v \in BoolValues : is_parsed[v] = FALSE
    /\ [][ /\ \A v \in BoolValues :
                  (is_parsed[v] = FALSE /\ is_parsed'[v] = TRUE) =>
                      /\ last'.self = v
                      /\ last'.ret = TRUE
                      /\ \/ last'.op \in ParseTextOps
                         \/ /\ last'.op = "ParseFromValue"
                            /\ Kind(last'.other) = Kind(v)
           /\ (/\ last'.op = "ParseFromValue"
               /\ Kind(last'.other) = Kind(last'.self)
               /\ is_parsed[last'.other] = FALSE) => is_parsed'[last'.self] = TRUE ]_vars

\* C4 witness: a ParseFromValue from an unparsed value of the same kind has
\* left the target parsed and the source unparsed.
C4_Witness ==
    /\ last.op = "ParseFromValue"
    /\ last.other # last.self
    /\ Kind(last.other) = Kind(last.self)
    /\ last.ret = TRUE
    /\ is_parsed[last.other] = FALSE
    /\ is_parsed[last.self] = TRUE

\* C5: ParseFromAttribute and ParseFromNode return true for every text and set
\* is_parsed; storage is true for a truthy token, false for a falsy token and
\* the default (false) for unparseable text.
C5_ParseTextNeverFails ==
    last.op \in ParseTextOps =>
        /\ last.ret = TRUE
        /\ is_parsed[last.self] = TRUE
        /\ last.text \in TruthyTexts => storage[last.self] = TRUE
        /\ last.text \in FalsyTexts => storage[last.self] = FALSE
        /\ last.text \notin (TruthyTexts \cup FalsyTexts) => storage[last.self] = FALSE

\* C5 witness: unparseable text has been bound over a value holding true: the
\* value is parsed and holds the default.
C5_Witness ==
    /\ last.op = "ParseFromNode"
    /\ last.text = <<"m", "a", "y", "b", "e">>
    /\ last.ret = TRUE
    /\ initial_value[last.self] = TRUE
    /\ is_parsed[last.self] = TRUE
    /\ storage[last.self] = FALSE

\* C6: ToString renders "true" for true and "false" for false, followed by one
\* newline exactly when append_new_line is set, whatever the indent; it
\* changes neither storage nor is_parsed.
C6_ToString ==
    [][ last'.op = "ToString" =>
            /\ last'.out = (IF storage[last'.self] THEN <<"t", "r", "u", "e">>
                                                   ELSE <<"f", "a", "l", "s", "e">>)
                           \o (IF last'.append_new_line THEN <<"\n">> ELSE <<>>)
            /\ storage' = storage
            /\ is_parsed' = is_parsed ]_vars

\* C6 witness: a parsed true value has been rendered with an indent and a
\* trailing newline.
C6_Witness ==
    /\ last.op = "ToString"
    /\ last.indent > 0
    /\ last.append_new_line = TRUE
    /\ storage[last.self] = TRUE
    /\ is_parsed[last.self] = TRUE
    /\ last.out = <<"t", "r", "u", "e", "\n">>

\* C7: Reset() followed by ToString() without a trailing newline yields
\* "false".
C7_ResetThenToString ==
    (last.op = "ToString" /\ last.after_reset /\ last.append_new_line = FALSE) =>
        last.out = <<"f", "a", "l", "s", "e">>

\* C7 witness: a value that was constructed holding true and has been parsed
\* was reset and then rendered without a newline.
C7_Witness ==
    /\ last.op = "ToString"
    /\ last.after_reset
    /\ last.append_new_line = FALSE
    /\ initial_value[last.self] = TRUE
    /\ is_parsed[last.self] = TRUE
    /\ last.out = <<"f", "a", "l", "s", "e">>

\* C8 as stated: the text ToString renders for a parsed value, with either
\* value of append_new_line, bound into another value by ParseFromAttribute or
\* ParseFromNode, gives that value the rendered value's storage.
C8_RoundTripAnyNewLine ==
    (last.op \in ParseTextOps /\ last.rendered /\ is_parsed[last.src]) =>
        storage[last.self] = storage[last.src]

\* C8, amended: the text ToString renders for a parsed value without the
\* trailing newline, bound into another value by ParseFromAttribute or
\* ParseFromNode, gives that value the rendered value's storage.
C8_RoundTripWithoutNewLine ==
    (/\ last.op \in ParseTextOps
     /\ last.rendered
     /\ last.src_new_line = FALSE
     /\ is_parsed[last.src]) =>
        storage[last.self] = storage[last.src]

\* C8 witness: the rendering "true" of a parsed value has been bound into a
\* value that was constructed by default, which now holds true.
C8_Witness ==
    /\ last.op = "ParseFromAttribute"
    /\ last.rendered
    /\ last.src_new_line = FALSE
    /\ last.text = <<"t", "r", "u", "e">>
    /\ is_parsed[last.src]
    /\ storage[last.src] = TRUE
    /\ initial_value[last.self] = FALSE
    /\ storage[last.self] = TRUE

----------------------------------------------------------------------------
(* Properties of the topology, checked under SpecTopology *)

UniqueNames(topo) ==
    \A name \in VHostNames : Cardinality(HostsNamed(topo, name)) <= 1

\* C9 as stated: the topology holds at most one host per name; CreateVHost of
\* an absent name gives Succeeded and returns normally; CreateVHost of a name
\* already present gives Exists (409 Conflict) and leaves the topology as it
\* was, with exactly one host of that name.
C9_CreateAbsentSucceeds ==
    /\ UniqueNames(topology)
    /\ [][ /\ UniqueNames(topology')
           /\ (api'.op = "CreateVHost" /\ ~api'.aborted) =>
                 IF HasVHost(topology, api'.name)
                 THEN /\ api'.result = "Exists"
                      /\ api'.error = "Conflict"
                      /\ topology' = topology
                      /\ Cardinality(HostsNamed(topology', api'.name)) = 1
                 ELSE /\ api'.result = "Succeeded"
                      /\ api'.error = "None"
                      /\ Cardinality(HostsNamed(topology', api'.name)) = 1 ]_vars

\* C9, amended: the topology holds at most one host per name; CreateVHost of
\* an absent name gives Succeeded and returns normally with the host
\* inserted, unless the construction step errors, which gives Failed and
\* leaves the topology as it was; CreateVHost of a name already present gives
\* Exists (409 Conflict) and leaves the topology as it was, with exactly one
\* host of that name.
C9_CreateAbsentSucceedsOrFails ==
    /\ UniqueNames(topology)
    /\ [][ /\ UniqueNames(topology')
           /\ (api'.op = "CreateVHost" /\ ~api'.aborted) =>
                 IF HasVHost(topology, api'.name)
                 THEN /\ api'.result = "Exists"
                      /\ api'.error = "Conflict"
                      /\ topology' = topology
                      /\ Cardinality(HostsNamed(topology', api'.name)) = 1
                 ELSE \/ /\ api'.result = "Succeeded"
                         /\ api'.error = "None"
                         /\ Cardinality(HostsNamed(topology', api'.name)) = 1
                         /\ RemoveVHost(topology', api'.name) = topology
                      \/ /\ api'.result = "Failed"
                         /\ topology' = topology ]_vars

\* C9 witness: a CreateVHost of a name already present was answered Exists,
\* and the topology holds one host of that name beside another host.
C9_Witness ==
    /\ api.op = "CreateVHost"
    /\ api.result = "Exists"
    /\ api.error = "Conflict"
    /\ Cardinality(HostsNamed(topology, api.name)) = 1
    /\ Len(topology) = 2

\* C10 as stated: DeleteVHost of a host that is present gives Succeeded and
\* removes it; a DeleteVHost of that name issued again gives NotExists (404
\* Not Found) and leaves the topology as it was.
C10_DeletePresentSucceeds ==
    [][ (api'.op = "DeleteVHost" /\ ~api'.aborted) =>
            /\ IF HasVHost(topology, api'.name)
               THEN /\ api'.result = "Succeeded"
                    /\ api'.error = "None"
                    /\ topology' = RemoveVHost(topology, api'.name)
                    /\ ~HasVHost(topology', api'.name)
               ELSE /\ api'.result = "NotExists"
                    /\ api'.error = "NotFound"
                    /\ topology' = topology
            /\ api'.again => api'.result = "NotExists" ]_vars

\* C10, amended: DeleteVHost of a host that is present gives Succeeded and
\* removes it, unless the removal step errors, which gives Failed and leaves
\* the topology as it was; a DeleteVHost of that name issued again after a
\* Succeeded one gives NotExists (404 Not Found) and leaves the topology as
\* it was.
C10_DeletePresentSucceedsOrFails ==
    [][ (api'.op = "DeleteVHost" /\ ~api'.aborted) =>
            /\ IF HasVHost(topology, api'.name)
               THEN \/ /\ api'.result = "Succeeded"
                       /\ api'.error = "None"
                       /\ topology' = RemoveVHost(topology, api'.name)
                       /\ ~HasVHost(topology', api'.name)
                    \/ /\ api'.result = "Failed"
                       /\ topology' = topology
               ELSE /\ api'.result = "NotExists"
                    /\ api'.error = "NotFound"
                    /\ topology' = topology
            /\ api'.again =>
                 /\ api'.result = "NotExists"
                 /\ api'.error = "NotFound"
                 /\ topology' = topology ]_vars

\* C10 witness: the second of two DeleteVHost calls of one name, the first of
\* which succeeded, was answered NotExists, and another host is still there.
C10_Witness ==
    /\ api.op = "DeleteVHost"
    /\ api.again
    /\ api.result = "NotExists"
    /\ api.error = "NotFound"
    /\ ~HasVHost(topology, api.name)
    /\ Len(topology) = 1

\* The hosts of a topology, as a set.
Hosts(topo) == {topo[i] : i \in 1..Len(topo)}

\* C11: whenever CreateVHost or DeleteVHost gets Failed (400 Bad Request), the
\* topology after the call is the topology before it.
C11_FailedLeavesTopology ==
    [][ (api'.op \in {"CreateVHost", "DeleteVHost"} /\ api'.result = "Failed") =>
            /\ topology' = topology
            /\ api'.error = "BadRequest" ]_vars

\* C11 witness: a DeleteVHost of a host that is present got Failed, and the
\* host is still there.
C11_Witness ==
    /\ api.op = "DeleteVHost"
    /\ api.result = "Failed"
    /\ api.error = "BadRequest"
    /\ HasVHost(topology, api.name)

SurfacedAs ==
    [CreateVHost |-> [Succeeded |-> "None", Exists |-> "Conflict", Failed |-> "BadRequest"],
     DeleteVHost |-> [Succeeded |-> "None", NotExists |-> "NotFound", Failed |-> "BadRequest"]]

\* C16: CreateVHost returns normally for Succeeded, raises Conflict for Exists
\* and Bad Request for Failed; DeleteVHost returns normally for Succeeded,
\* raises Not Found for NotExists and Bad Request for Failed; each call calls
\* the orchestrator once.
C16_OutcomesSurfaced ==
    (api.op \in {"CreateVHost", "DeleteVHost"} /\ ~api.aborted) =>
        /\ api.result \in DOMAIN SurfacedAs[api.op]
        /\ api.error = SurfacedAs[api.op][api.result]
        /\ api.gateway_calls = 1

\* C16 witness: a CreateVHost that got Failed raised Bad Request after one
\* call of the orchestrator.
C16_Witness ==
    /\ api.op = "CreateVHost"
    /\ api.result = "Failed"
    /\ api.error = "BadRequest"
    /\ api.gateway_calls = 1

\* C17: CreateVHost never gets NotExists, DeleteVHost never gets Exists, and
\* neither reaches the branch that asserts and raises Internal Server Error.
C17_AssertBranchesUnreachable ==
    /\ api.op = "CreateVHost" => api.result # "NotExists"
    /\ api.op = "DeleteVHost" => api.result # "Exists"
    /\ api.error \notin {"InternalServerError", "Stopped"}

\* C17 witness: a DeleteVHost of an absent name, next to a host that is
\* present, got NotExists and raised Not Found.
C17_Witness ==
    /\ api.op = "DeleteVHost"
    /\ api.result = "NotExists"
    /\ api.error = "NotFound"
    /\ Len(topology) = 1

----------------------------------------------------------------------------
(* Properties of the bind with an include, checked under SpecBind *)

BindDone == binder.step >= 1 /\ BinderAt = "done"

\* The truth value a document text stands for.
TruthOf(text) == text \in TruthyTexts

\* C15 as stated: when both documents set F, to different values, the node
\* holds the including document's value after the bind, in either order of
\* the local bind and the layering; a field set only by the included document
\* holds the included value.
C15_LocalWinsInAnyOrder ==
    BindDone =>
        /\ (/\ binder.has_local
            /\ binder.has_included
            /\ TruthOf(binder.local_text) # TruthOf(binder.included_text))
           => storage[NodeField] = TruthOf(binder.local_text)
        /\ (binder.has_included /\ ~binder.has_local)
           => storage[NodeField] = TruthOf(binder.included_text)

\* C15, amended: when both documents set F, to different values, the node
\* holds the including document's value after the bind if the layering of the
\* included node's parsed fields was done before the local bind, and the
\* included document's value if it was done after; a field set only by the
\* included document holds the included value.
C15_LastWriteWins ==
    BindDone =>
        /\ (/\ binder.has_local
            /\ binder.has_included
            /\ TruthOf(binder.local_text) # TruthOf(binder.included_text))
           => /\ is_parsed[NodeField] = TRUE
              /\ storage[NodeField] =
                    IF binder.order = "include_first"
                    THEN TruthOf(binder.local_text)
                    ELSE TruthOf(binder.included_text)
        /\ (binder.has_included /\ ~binder.has_local)
           => /\ is_parsed[NodeField] = TRUE
              /\ storage[NodeField] = TruthOf(binder.included_text)

\* C15 witness: the included document set F to "true" and was layered first,
\* the including document set F to "no": the node holds false.
C15_Witness ==
    /\ BindDone
    /\ binder.order = "include_first"
    /\ binder.has_included
    /\ binder.included_text = <<"t", "r", "u", "e">>
    /\ binder.has_local
    /\ binder.local_text = <<"n", "o">>
    /\ storage[ScratchField] = TRUE
    /\ storage[NodeField] = FALSE
    /\ is_parsed[NodeField] = TRUE

----------------------------------------------------------------------------
(* Properties of the gateway under the topology lock, checked under
   SpecConcurrent *)

\* C12: a lookup of a name that started after a CreateVirtualHost of the name
\* returned Succeeded, with no successful DeleteVirtualHost of it since,
\* observes the host; a lookup that started after a DeleteVirtualHost of the
\* name returned Succeeded, with no successful CreateVirtualHost of it since,
\* does not observe a host.
C12_VisibilityOrdering ==
    \A r \in Readers :
        readers[r].pc = "snapped" =>
            /\ readers[r].expect = "present" => readers[r].seen = "whole"
            /\ readers[r].expect = "absent" => readers[r].seen = "absent"

\* C12 witness: a lookup that started after a create returned Succeeded
\* observes the host, while a lookup of the same name that started before the
\* create published the host still waits for the lock.
C12_Witness ==
    \E r1, r2 \in Readers :
        /\ readers[r1].pc = "snapped"
        /\ readers[r1].expect = "present"
        /\ readers[r1].seen = "whole"
        /\ readers[r2].pc = "waiting"
        /\ readers[r2].name = readers[r1].name
        /\ readers[r2].expect = "any"

\* C13: a lookup never observes a host part-way through its construction or
\* its destruction (it sees the host whole and frozen, or no host), no lookup
\* holds the lock while a writer is inside create/delete, and no two writers
\* are inside create/delete at the same time.
C13_NoPartialHostOneWriter ==
    /\ \A r \in Readers : readers[r].pc = "snapped" => readers[r].seen \in {"whole", "absent"}
    /\ \A w1, w2 \in Writers : (Inside(w1) /\ Inside(w2)) => w1 = w2
    /\ \A w \in Writers : Inside(w) => lock.readers = {}

\* C13 witness: a delete is part-way through tearing down a host that another
\* writer created, while a lookup of that name waits for the lock.
C13_Witness ==
    \E r \in Readers, w1, w2 \in Writers :
        /\ writers[w1].pc = "destroying"
        /\ Observe(topology, writers, writers[w1].name) = "partial"
        /\ readers[r].pc = "waiting"
        /\ readers[r].name = writers[w1].name
        /\ w2 # w1
        /\ writers[w2].pc = "return"
        /\ writers[w2].op = "CreateVirtualHost"
        /\ writers[w2].name = writers[w1].name

----------------------------------------------------------------------------
(* Properties of Server::Start and Server::Stop, checked under SpecServer *)

\* How many times a server was passed to ReleaseServer.
TimesReleased(id, released) == Cardinality({i \in 1..Len(released) : released[i] = id})

\* C19: when Start returns false because PrepareHttpServers failed, every
\* server created in the call (and every server held before it) was passed to
\* ReleaseServer exactly once, nothing else was released, and both lists are
\* empty; when Start returns true no server was released and the lists hold
\* what they held before the call followed by exactly the servers created in
\* the call, which are new and distinct.
C19_StartRollback ==
    [][(server_call'.op = "Start" /\ starting'.pc = "idle") =>
          LET c == server_call'
              before_http == IF starting.pc = "ips" THEN starting.held_http ELSE http_server_list
              before_https == IF starting.pc = "ips" THEN starting.held_https ELSE https_server_list
              created == RangeOf(c.created_http) \cup RangeOf(c.created_https)
              held == RangeOf(before_http) \cup RangeOf(before_https)
          IN  /\ Cardinality(created) = Len(c.created_http) + Len(c.created_https)
              /\ created \cap held = {}
              /\ (c.reason = "prepare" /\ ~c.ret) =>
                    /\ http_server_list' = <<>>
                    /\ https_server_list' = <<>>
                    /\ \A id \in created \cup held : TimesReleased(id, c.released) = 1
                    /\ RangeOf(c.released) = created \cup held
                    /\ RangeOf(http_server_list) \cup RangeOf(https_server_list)
                          \subseteq RangeOf(c.released)
              /\ c.ret =>
                    /\ http_server_list' = before_http \o c.created_http
                    /\ https_server_list' = before_https \o c.created_https
                    /\ c.released = <<>>
    ]_vars

\* C19 witness: PrepareHttpServers failed after it had created an HTTP and an
\* HTTPS server; Start returned false, released both and left the lists empty.
C19_Witness ==
    /\ server_call.op = "Start"
    /\ server_call.reason = "prepare"
    /\ server_call.ret = FALSE
    /\ Len(server_call.created_http) >= 1
    /\ Len(server_call.created_https) >= 1
    /\ Len(server_call.released) >= 2
    /\ http_server_list = <<>>
    /\ https_server_list = <<>>

\* C20: Stop passes every server of the two lists to ReleaseServer exactly
\* once, and nothing else, also when a ReleaseServer returns false; it leaves
\* both lists empty and the root controller null; it returns true exactly when
\* no ReleaseServer returned false; a Stop that follows a Stop releases nothing
\* and returns true.
C20_StopReleasesAll ==
    [][(server_call'.op = "Stop" /\ starting.pc = "idle") =>
          LET c == server_call'
              held == RangeOf(http_server_list) \cup RangeOf(https_server_list)
          IN  /\ \A id \in held : TimesReleased(id, c.released) = 1
              /\ RangeOf(c.released) = held
              /\ http_server_list' = <<>>
              /\ https_server_list' = <<>>
              /\ root_controller' = FALSE
              /\ c.ret <=> (c.failed \cap held = {})
              /\ server_call.op = "Stop" => (c.released = <<>> /\ c.ret = TRUE)
    ]_vars

\* C20 witness: a Stop released an HTTP and an HTTPS server although the
\* release of the first one failed, and returned false.
C20_Witness ==
    /\ server_call.op = "Stop"
    /\ Len(server_call.released) >= 2
    /\ server_call.released[1] \in server_call.failed
    /\ server_call.ret = FALSE
    /\ http_server_list = <<>>
    /\ https_server_list = <<>>
    /\ root_controller = FALSE

====
